---- MODULE Spec2Model ----
(***************************************************************************)
(* Model of snowbasin_watch.py: one run of main() fetches the mountain     *)
(* report as text lines, classifies lift / trail / gate rows, diffs the    *)
(* assembled snapshot against the persisted one and decides whether to     *)
(* push a notification.                                                    *)
(*                                                                         *)
(* Text is modelled at character level: a Python str is a sequence of      *)
(* one-character strings, so that rfind, replace, strip, slicing and the   *)
(* f-string key construction are computed as the code computes them.       *)
(* The three special spaces of normalize_text are the characters "NBSP",   *)
(* "THINSP" and "NNBSP".                                                   *)
(***************************************************************************)
EXTENDS Integers, Sequences, FiniteSets, TLC

VARIABLES
    stateFile,         \* content of STATE_FILE on disk
    lines,             \* result of fetch_lines() in the last run
    lift_items,        \* parse_items_from_full_page(lines, "lifts")
    trail_like_items,  \* parse_items_from_full_page(lines, "trails")
    current,           \* snapshot assembled by the last run
    prev,              \* result of load_state() in the last run
    newly_open,        \* the three sorted newly-open lists of the last run
    outcome,           \* how the last run ended
    message,           \* arguments of the pushover_notify call, if any
    baselined,         \* observer: some run has persisted a non-empty snapshot
    opened,            \* observer: (category, key) pairs seen Open since then
    same_as_last       \* observer: this run fetched the lines the run before it parsed

vars == <<stateFile, lines, lift_items, trail_like_items, current, prev,
          newly_open, outcome, message, baselined, opened, same_as_last>>

(***************************************************************************)
(* Bounds of the model.                                                    *)
(***************************************************************************)
MaxLines == 3       \* lines of a page in SpecParse
MaxPieces == 3      \* pieces concatenated into one raw line in SpecParse
MaxRunLines == 2    \* lines of a page in Spec

(***************************************************************************)
(* String constants of the program.                                        *)
(***************************************************************************)
TOGGLE == <<"T","o","g","g","l","e"," ","a","c","c","o","r","d","i","o","n">>
KEY_SEP == <<" ",":",":"," ">>
UNKNOWN == <<"U","n","k","n","o","w","n">>

LIFT_OPEN == <<"L","i","f","t"," ","O","p","e","n">>
LIFT_CLOSED == <<"L","i","f","t"," ","C","l","o","s","e","d">>
LIFT_ON_HOLD == <<"L","i","f","t"," ","O","n"," ","H","o","l","d">>
LIFT_SCHEDULED == <<"L","i","f","t"," ","S","c","h","e","d","u","l","e","d">>
LIFT_DELAYED == <<"L","i","f","t"," ","D","e","l","a","y","e","d">>
TRAIL_OPEN == <<"T","r","a","i","l"," ","O","p","e","n">>
TRAIL_CLOSED == <<"T","r","a","i","l"," ","C","l","o","s","e","d">>
TRAIL_EXPECTED == <<"T","r","a","i","l"," ","E","x","p","e","c","t","e","d">>
TRAIL_DELAYED == <<"T","r","a","i","l"," ","D","e","l","a","y","e","d">>

LIFT_MARKERS ==
    << <<"Open", LIFT_OPEN>>,
       <<"Closed", LIFT_CLOSED>>,
       <<"On Hold", LIFT_ON_HOLD>>,
       <<"Scheduled", LIFT_SCHEDULED>>,
       <<"Delayed", LIFT_DELAYED>> >>

TRAIL_MARKERS ==
    << <<"Open", TRAIL_OPEN>>,
       <<"Closed", TRAIL_CLOSED>>,
       <<"Expected", TRAIL_EXPECTED>>,
       <<"Delayed", TRAIL_DELAYED>> >>

GATE_WORD == <<"g","a","t","e">>
THE_WALLOW == <<"T","h","e"," ","W","a","l","l","o","w">>
GATE_SPECIAL_NAMES == {THE_WALLOW}
ACCESS_GATES == <<"a","c","c","e","s","s"," ","g","a","t","e","s">>

(***************************************************************************)
(* Characters: the ASCII characters that occur, in code point order, and   *)
(* the character classes the program's string operations distinguish.      *)
(***************************************************************************)
UPPER == <<"A","B","C","D","E","F","G","H","I","J","K","L","M",
           "N","O","P","Q","R","S","T","U","V","W","X","Y","Z">>
LOWER == <<"a","b","c","d","e","f","g","h","i","j","k","l","m",
           "n","o","p","q","r","s","t","u","v","w","x","y","z">>
ASCII == <<" ", "'", ":">> \o UPPER \o <<"_">> \o LOWER
SpecialSpaces == {"NBSP", "THINSP", "NNBSP"}
Whitespace == {" ", "TAB"} \cup SpecialSpaces
WordChars == {UPPER[i] : i \in 1..Len(UPPER)} \cup {LOWER[i] : i \in 1..Len(LOWER)} \cup {"_"}

CodePoint(c) == CHOOSE i \in 1..Len(ASCII) : ASCII[i] = c

LowerChar(c) ==
    IF \E i \in 1..Len(UPPER) : UPPER[i] = c
    THEN LOWER[CHOOSE i \in 1..Len(UPPER) : UPPER[i] = c]
    ELSE c

SetMax(S) == CHOOSE x \in S : \A y \in S : y <= x
SetMin(S) == CHOOSE x \in S : \A y \in S : x <= y

(***************************************************************************)
(* Python str operations on character sequences.                           *)
(***************************************************************************)
\* s.lower()
StrLower(s) == [i \in 1..Len(s) |-> LowerChar(s[i])]

\* the 0-based start indices at which t occurs in s
Occurrences(s, t) ==
    {i \in 0..(Len(s) - Len(t)) : \A j \in 1..Len(t) : s[i + j] = t[j]}

\* faulty variant of RFind: the first occurrence, as s.find(t)
RFindFirst(s, t) ==
    IF Occurrences(s, t) = {} THEN -1 ELSE SetMin(Occurrences(s, t))

\* s.rfind(t): the greatest start index, -1 when t does not occur
RFindIn(occ) == IF occ = {} THEN -1 ELSE SetMax(occ)
RFind(s, t) == RFindIn(Occurrences(s, t))

\* t in s
StrIn(t, s) == Occurrences(s, t) # {}

\* s[:idx] for 0 <= idx <= len(s)
SliceTo(s, idx) == SubSeq(s, 1, idx)

\* s.strip()
StrStrip(s) ==
    LET keep == {i \in 1..Len(s) : s[i] \notin Whitespace}
    IN  IF keep = {} THEN <<>> ELSE SubSeq(s, SetMin(keep), SetMax(keep))

\* s.replace(old, new): non-overlapping occurrences, left to right
RECURSIVE StrReplace(_, _, _)
StrReplace(s, old, new) ==
    IF Len(s) < Len(old) THEN s
    ELSE IF SubSeq(s, 1, Len(old)) = old
         THEN new \o StrReplace(SubSeq(s, Len(old) + 1, Len(s)), old, new)
         ELSE <<Head(s)>> \o StrReplace(Tail(s), old, new)

\* a < b for Python str (lexicographic by code point)
RECURSIVE StrLess(_, _)
StrLess(a, b) ==
    IF b = <<>> THEN FALSE
    ELSE IF a = <<>> THEN TRUE
    ELSE IF Head(a) = Head(b) THEN StrLess(Tail(a), Tail(b))
    ELSE CodePoint(Head(a)) < CodePoint(Head(b))

\* sorted(S) for a set of str
RECURSIVE Sorted(_)
Sorted(S) ==
    IF S = {} THEN <<>>
    ELSE LET m == CHOOSE x \in S : \A y \in S \ {x} : StrLess(x, y)
         IN  <<m>> \o Sorted(S \ {m})

(***************************************************************************)
(* normalize_text and fetch_lines.  rawLines is text.splitlines() of the   *)
(* flattened page.                                                         *)
(***************************************************************************)
\* re.sub(r"\s+", " ", s): every maximal run of whitespace becomes one space
RECURSIVE CollapseWs(_)
CollapseWs(s) ==
    IF s = <<>> THEN <<>>
    ELSE IF Head(s) \in Whitespace
         THEN IF Len(s) > 1 /\ s[2] \in Whitespace
              THEN CollapseWs(Tail(s))
              ELSE <<" ">> \o CollapseWs(Tail(s))
         ELSE <<Head(s)>> \o CollapseWs(Tail(s))

normalize_text(s) ==
    LET replaced == [i \in 1..Len(s) |->
                        IF s[i] \in SpecialSpaces THEN " " ELSE s[i]]
    IN  StrStrip(CollapseWs(replaced))

fetch_lines(rawLines) ==
    LET normalized == [i \in 1..Len(rawLines) |-> normalize_text(rawLines[i])]
    IN  SelectSeq(normalized, LAMBDA ln : ln # <<>>)

(***************************************************************************)
(* parse_items_from_full_page.                                             *)
(***************************************************************************)
NoneFound == [none |-> TRUE]

\* the loop over the markers: found after markers j..Len(markers)
RECURSIVE ScanMarkers(_, _, _, _)
ScanMarkers(ln, markers, j, found) ==
    IF j > Len(markers) THEN found
    ELSE LET status == markers[j][1]
             token == markers[j][2]
             idx == RFind(ln, token)
         IN  IF idx # -1 /\ (found.none \/ idx > found.idx)
             THEN ScanMarkers(ln, markers, j + 1,
                              [none |-> FALSE, status |-> status,
                               idx |-> idx, token |-> token])
             ELSE ScanMarkers(ln, markers, j + 1, found)

\* the loop over the lines: items after lines i..Len(lns)
RECURSIVE ParseLoop(_, _, _, _, _)
ParseLoop(lns, markers, i, group, items) ==
    IF i > Len(lns) THEN items
    ELSE LET ln == lns[i]
         IN  IF StrIn(TOGGLE, ln)
             THEN ParseLoop(lns, markers, i + 1,
                            StrStrip(StrReplace(ln, TOGGLE, <<>>)), items)
             ELSE LET found == ScanMarkers(ln, markers, 1, NoneFound)
                  IN  IF found.none
                      THEN ParseLoop(lns, markers, i + 1, group, items)
                      ELSE ParseLoop(lns, markers, i + 1, group,
                               Append(items,
                                   <<group,
                                     StrStrip(SliceTo(ln, found.idx)),
                                     found.status>>))

\* faulty variant of parse_items_from_full_page: the running group starts empty
parse_items_group_empty(lns, kind) ==
    ParseLoop(lns, IF kind = "lifts" THEN LIFT_MARKERS ELSE TRAIL_MARKERS,
              1, <<>>, <<>>)

parse_items_from_full_page(lns, kind) ==
    ParseLoop(lns, IF kind = "lifts" THEN LIFT_MARKERS ELSE TRAIL_MARKERS,
              1, UNKNOWN, <<>>)

(***************************************************************************)
(* is_gate_row.                                                            *)
(***************************************************************************)
\* GATE_NAME_REGEX.match(name): .*\bGate$ with re.IGNORECASE
GateNameMatch(name) ==
    LET n == Len(name)
    IN  /\ n >= 4
        /\ StrLower(SubSeq(name, n - 3, n)) = GATE_WORD
        /\ (n = 4 \/ name[n - 4] \notin WordChars)

is_gate_row(group, name) ==
    IF GateNameMatch(name) THEN TRUE
    ELSE IF name \in GATE_SPECIAL_NAMES THEN TRUE
    ELSE IF StrIn(ACCESS_GATES, StrLower(group)) THEN TRUE
    ELSE FALSE

(***************************************************************************)
(* Python dicts are functions; main's assembly of the three mappings.      *)
(***************************************************************************)
EmptyDict == [k \in {} |-> "Open"]

\* d[k] = v
DictSet(d, k, v) ==
    [x \in (DOMAIN d) \cup {k} |-> IF x = k THEN v ELSE d[x]]

PyNone == "<None>"

\* d.get(k)
DictGet(d, k) == IF k \in DOMAIN d THEN d[k] ELSE PyNone

\* f"{group} :: {name}"
EntityKey(group, name) == group \o KEY_SEP \o name

\* for group, name, status in lift_items: lifts[key] = status
RECURSIVE AssembleLifts(_, _, _)
AssembleLifts(items, i, lifts) ==
    IF i > Len(items) THEN lifts
    ELSE AssembleLifts(items, i + 1,
             DictSet(lifts, EntityKey(items[i][1], items[i][2]), items[i][3]))

\* for group, name, status in trail_like_items: gates[key] or trails[key]
RECURSIVE AssembleTrails(_, _, _)
AssembleTrails(items, i, acc) ==
    IF i > Len(items) THEN acc
    ELSE LET group == items[i][1]
             name == items[i][2]
             status == items[i][3]
             key == EntityKey(group, name)
         IN  IF is_gate_row(group, name)
             THEN AssembleTrails(items, i + 1,
                      [acc EXCEPT !.gates = DictSet(acc.gates, key, status)])
             ELSE AssembleTrails(items, i + 1,
                      [acc EXCEPT !.trails = DictSet(acc.trails, key, status)])

\* current = {"lifts": lifts, "trails": trails, "gates": gates}
AssembleCurrent(liftItems, trailLikeItems) ==
    LET tg == AssembleTrails(trailLikeItems, 1,
                  [trails |-> EmptyDict, gates |-> EmptyDict])
    IN  [lifts |-> AssembleLifts(liftItems, 1, EmptyDict),
         trails |-> tg.trails,
         gates |-> tg.gates]

Categories == {"lifts", "trails", "gates"}

(***************************************************************************)
(* The state file.  Its content is either no JSON at all or a JSON         *)
(* document; an object is its member list in file order, any other JSON    *)
(* value (null, number, string, array, boolean) keeps only its truth value.*)
(***************************************************************************)
FileMissing == [kind |-> "missing"]
FileGarbage == [kind |-> "garbage"]
FileJson(doc) == [kind |-> "json", doc |-> doc]

JObject(members) == [t |-> "object", members |-> members]
JOther(truthy) == [t |-> "other", truthy |-> truthy]

PyDict(items) == [py |-> "dict", items |-> items]
PyOther(truthy) == [py |-> "other", truthy |-> truthy]

\* a JSON object's members read into a dict: a repeated name keeps the last value
RECURSIVE MembersToDict(_, _, _)
MembersToDict(members, i, d) ==
    IF i > Len(members) THEN d
    ELSE MembersToDict(members, i + 1,
                       DictSet(d, members[i][1], members[i][2]))

\* json.load of a category value
LoadCategory(j) ==
    IF j.t = "object" THEN PyDict(MembersToDict(j.members, 1, EmptyDict))
    ELSE PyOther(j.truthy)

\* state.setdefault(cat, {}) followed by state[cat]
SetDefault(top, cat) ==
    IF cat \in DOMAIN top THEN LoadCategory(top[cat]) ELSE PyDict(EmptyDict)

load_state(file) ==
    IF file.kind = "missing"
    THEN [ok |-> TRUE,
          state |-> [lifts |-> PyDict(EmptyDict), trails |-> PyDict(EmptyDict),
                     gates |-> PyDict(EmptyDict)]]
    ELSE IF file.kind = "garbage"
    THEN [ok |-> FALSE, error |-> "JSONDecodeError"]
    ELSE IF file.doc.t # "object"
    THEN [ok |-> FALSE, error |-> "AttributeError"]
    ELSE LET top == MembersToDict(file.doc.members, 1, EmptyDict)
         IN  [ok |-> TRUE,
              state |-> [lifts |-> SetDefault(top, "lifts"),
                         trails |-> SetDefault(top, "trails"),
                         gates |-> SetDefault(top, "gates")]]

\* json.dump of one mapping with sort_keys=True
DumpDict(d) ==
    LET ks == Sorted(DOMAIN d)
    IN  JObject([i \in 1..Len(ks) |-> <<ks[i], d[ks[i]]>>])

\* faulty variant of save_state: the older persisted shape, without the gates
save_state_without_gates(state) ==
    FileJson(JObject(<< <<"lifts", DumpDict(state.lifts)>>,
                        <<"trails", DumpDict(state.trails)>> >>))

\* the file written by save_state(state)
save_state(state) ==
    FileJson(JObject(<< <<"gates", DumpDict(state.gates)>>,
                        <<"lifts", DumpDict(state.lifts)>>,
                        <<"trails", DumpDict(state.trails)>> >>))

(***************************************************************************)
(* The differ and the notification of main.                                *)
(***************************************************************************)
\* Python truth value of a loaded category
Truthy(v) == IF v.py = "dict" THEN DOMAIN v.items # {} ELSE v.truthy

first_run(prevState) ==
    ~Truthy(prevState.lifts) /\ ~Truthy(prevState.trails) /\ ~Truthy(prevState.gates)

\* prev[cat].get(k) is reached for an Open key and prev[cat] has no .get
DiffRaises(cur, prevState) ==
    \E cat \in Categories :
        /\ prevState[cat].py # "dict"
        /\ \E k \in DOMAIN cur[cat] : cur[cat][k] = "Open"

\* faulty variant of NewlyOpenList: only a key absent from the previous mapping is new
NewlyOpenAbsentOnly(cur, prevCat) ==
    Sorted({k \in DOMAIN cur :
               cur[k] = "Open" /\ k \notin DOMAIN prevCat.items})

\* sorted(k for k, v in cur.items() if v == "Open" and prevCat.get(k) != "Open")
NewlyOpenList(cur, prevCat) ==
    Sorted({k \in DOMAIN cur :
               cur[k] = "Open" /\ DictGet(prevCat.items, k) # "Open"})

NewlyOpen(cur, prevState) ==
    [lifts |-> NewlyOpenList(cur.lifts, prevState.lifts),
     trails |-> NewlyOpenList(cur.trails, prevState.trails),
     gates |-> NewlyOpenList(cur.gates, prevState.gates)]

FMT_LIMIT == 30

\* fmt(items): the keys shown and the count behind "(+N more)"
fmt(items) ==
    LET shown == SubSeq(items, 1, IF Len(items) < FMT_LIMIT THEN Len(items) ELSE FMT_LIMIT)
    IN  [shown |-> shown, more |-> Len(items) - Len(shown)]

\* parts, in the order main appends them
Parts(no) ==
    (IF no.lifts # <<>> THEN <<[head |-> "New lifts open:", body |-> fmt(no.lifts)]>> ELSE <<>>)
    \o (IF no.trails # <<>> THEN <<[head |-> "New trails open:", body |-> fmt(no.trails)]>> ELSE <<>>)
    \o (IF no.gates # <<>> THEN <<[head |-> "New access gates open:", body |-> fmt(no.gates)]>> ELSE <<>>)

NoNewlyOpen == [lifts |-> <<>>, trails |-> <<>>, gates |-> <<>>]
NoPrev == [ok |-> FALSE, error |-> "not loaded"]
NoCurrent == [lifts |-> EmptyDict, trails |-> EmptyDict, gates |-> EmptyDict]
NoMessage == <<>>

\* the (category, key) pairs a snapshot has Open
OpenIn(cur) ==
    UNION {{<<cat, k>> : k \in {x \in DOMAIN cur[cat] : cur[cat][x] = "Open"}} :
              cat \in Categories}

(***************************************************************************)
(* Inputs.  A page is text.splitlines() of one fetch.                      *)
(***************************************************************************)
SeqsUpTo(S, n) == UNION {[1..k -> S] : k \in 0..n}

RECURSIVE Concat(_)
Concat(ps) == IF ps = <<>> THEN <<>> ELSE Head(ps) \o Concat(Tail(ps))

JOHN_PAUL == <<"J","o","h","n"," ","P","a","u","l">>
CITY_HILL == <<"C","i","t","y"," ","H","i","l","l">>
BECKERS_GATE == <<"B","e","c","k","e","r","'","s"," ","G","a","t","e">>
NEEDLES == <<"N","e","e","d","l","e","s">>
ACCESS_GATES_HEADER == <<"A","c","c","e","s","s"," ","G","a","t","e","s">>
SNOW_REPORT == <<"S","n","o","w"," ","R","e","p","o","r","t">>
SP == <<" ">>

\* the rows of the pages fetched by the runs of Spec
RunLines ==
    { JOHN_PAUL \o <<"NBSP">> \o LIFT_OPEN,
      JOHN_PAUL \o SP \o LIFT_CLOSED,
      CITY_HILL \o SP \o TRAIL_OPEN,
      BECKERS_GATE \o SP \o TRAIL_OPEN }

RunPages == SeqsUpTo(RunLines, MaxRunLines)

\* the rows of the multi-line pages of SpecParse
CoreLines ==
    { NEEDLES \o SP \o TOGGLE,
      ACCESS_GATES_HEADER \o SP \o TOGGLE,
      UNKNOWN \o KEY_SEP \o <<"X">> \o SP \o TOGGLE,
      TOGGLE \o SP \o LIFT_OPEN,
      JOHN_PAUL \o SP \o LIFT_OPEN,
      LIFT_OPEN,
      THE_WALLOW \o SP \o TRAIL_OPEN,
      <<"X">> \o KEY_SEP \o THE_WALLOW \o SP \o TRAIL_CLOSED,
      BECKERS_GATE \o SP \o TRAIL_OPEN,
      CITY_HILL \o SP \o TRAIL_CLOSED,
      SNOW_REPORT }

\* the pieces of the one-line pages of SpecParse
Pieces ==
    { LIFT_OPEN, LIFT_CLOSED, LIFT_ON_HOLD, TRAIL_OPEN, TRAIL_EXPECTED,
      TOGGLE, SP, <<"NBSP">>, <<"X">> }

PieceLines == {Concat(ps) : ps \in SeqsUpTo(Pieces, MaxPieces)}

ParsePages == SeqsUpTo(CoreLines, MaxLines) \cup {<<ln>> : ln \in PieceLines}

\* state files found on disk before the first run
OldLifts == JObject(<< <<EntityKey(UNKNOWN, JOHN_PAUL), "Closed">> >>)
OldTrails == JObject(<< <<EntityKey(UNKNOWN, CITY_HILL), "Open">> >>)

InitFiles ==
    { FileMissing,
      FileGarbage,
      FileJson(JOther(FALSE)),
      FileJson(JObject(<<>>)),
      FileJson(JObject(<< <<"lifts", OldLifts>> >>)),
      FileJson(JObject(<< <<"lifts", OldLifts>>, <<"trails", OldTrails>> >>)),
      FileJson(JObject(<< <<"lifts", JObject(<<>>)>>, <<"trails", JObject(<<>>)>>,
                          <<"gates", JObject(<<>>)>> >>)),
      FileJson(JObject(<< <<"lifts", JOther(FALSE)>> >>)),
      FileJson(JObject(<< <<"lifts", JOther(TRUE)>>, <<"trails", OldTrails>> >>)) }

(***************************************************************************)
(* The runs of main().                                                     *)
(***************************************************************************)
Init ==
    /\ stateFile \in InitFiles
    /\ lines = <<>>
    /\ lift_items = <<>>
    /\ trail_like_items = <<>>
    /\ current = NoCurrent
    /\ prev = NoPrev
    /\ newly_open = NoNewlyOpen
    /\ outcome = "not run"
    /\ message = NoMessage
    /\ baselined = FALSE
    /\ opened = {}
    /\ same_as_last = FALSE

\* fetch_lines raises (transport error, raise_for_status): nothing else runs
FetchFails ==
    /\ lines' = <<>>
    /\ lift_items' = <<>>
    /\ trail_like_items' = <<>>
    /\ current' = NoCurrent
    /\ prev' = NoPrev
    /\ newly_open' = NoNewlyOpen
    /\ outcome' = "fetch error"
    /\ message' = NoMessage
    /\ same_as_last' = FALSE
    /\ UNCHANGED <<stateFile, baselined, opened>>

\* the exception lines 197-202 of main raise, "none" when they raise none
LoadRaises(cur, loaded) ==
    IF ~loaded.ok THEN loaded.error
    ELSE IF DiffRaises(cur, loaded.state) THEN "AttributeError"
    ELSE "none"

IsEmpty(cur) ==
    DOMAIN cur.lifts = {} /\ DOMAIN cur.trails = {} /\ DOMAIN cur.gates = {}

\* faulty variant of Ending: the first-run return is missing
EndingWithoutFirstRun(cur, prevState, no) ==
    IF IsEmpty(cur) THEN "RuntimeError"
    ELSE IF no = NoNewlyOpen THEN "no new opens"
    ELSE "notify"

\* how main ends once save_state has run (lines 207-227)
Ending(cur, prevState, no) ==
    IF IsEmpty(cur) THEN "RuntimeError"
    ELSE IF first_run(prevState) THEN "first run"
    ELSE IF no = NoNewlyOpen THEN "no new opens"
    ELSE "notify"

\* pushover_notify was called: it returned, or its resp.raise_for_status() raised
Notified == {"notified", "notify error"}

\* main() on a page that was fetched
Main(rawLines) ==
    /\ lines' = fetch_lines(rawLines)
    /\ lift_items' = parse_items_from_full_page(lines', "lifts")
    /\ trail_like_items' = parse_items_from_full_page(lines', "trails")
    /\ current' = AssembleCurrent(lift_items', trail_like_items')
    /\ prev' = load_state(stateFile)
    /\ IF LoadRaises(current', prev') # "none"
       THEN /\ newly_open' = NoNewlyOpen
            /\ outcome' = LoadRaises(current', prev')
            /\ message' = NoMessage
            /\ opened' = opened \cup OpenIn(current')
            /\ UNCHANGED <<stateFile, baselined>>
       ELSE /\ newly_open' = NewlyOpen(current', prev'.state)
            /\ stateFile' = save_state(current')
            /\ outcome' \in IF Ending(current', prev'.state, newly_open') = "notify"
                           THEN Notified
                           ELSE {Ending(current', prev'.state, newly_open')}
            /\ message' = IF outcome' \in Notified
                          THEN Parts(newly_open') ELSE NoMessage
            /\ baselined' = (baselined \/ ~IsEmpty(current'))
            /\ opened' = IF IsEmpty(current') THEN opened ELSE OpenIn(current')
    /\ same_as_last' = (outcome \notin {"not run", "fetch error"} /\ lines' = lines)

Run == \E rawLines \in RunPages : Main(rawLines)

Next == Run \/ FetchFails

Spec == Init /\ [][Next]_vars

\* one run on a fresh checkout, over the pages that exercise the classifier
InitParse == Init /\ stateFile = FileMissing

ParseRun ==
    /\ outcome = "not run"
    /\ \E rawLines \in ParsePages : Main(rawLines)

SpecParse == InitParse /\ [][ParseRun]_vars

(***************************************************************************)
(* Vocabulary of the properties, stated without the program's operators.   *)
(***************************************************************************)
\* token t stands in s at 0-based start index i
OccursAt(s, t, i) ==
    /\ i >= 0
    /\ i + Len(t) <= Len(s)
    /\ SubSeq(s, i + 1, i + Len(t)) = t

Occurs(s, t) == \E i \in 0..Len(s) : OccursAt(s, t, i)

\* the start index of the rightmost occurrence of t in s
RightmostAt(s, t) ==
    CHOOSE i \in 0..Len(s) :
        OccursAt(s, t, i) /\ \A h \in (i + 1)..Len(s) : ~OccursAt(s, t, h)

\* r is s without its leading and trailing whitespace
IsTrimOf(r, s) ==
    /\ \E a \in 0..Len(s) :
          /\ a + Len(r) <= Len(s)
          /\ SubSeq(s, a + 1, a + Len(r)) = r
          /\ \A i \in 1..a : s[i] \in Whitespace
          /\ \A i \in (a + Len(r) + 1)..Len(s) : s[i] \in Whitespace
    /\ r # <<>> => (r[1] \notin Whitespace /\ r[Len(r)] \notin Whitespace)

\* the n-th smallest element of a set of numbers
Nth(S, n) == CHOOSE i \in S : Cardinality({h \in S : h < i}) = n - 1

Markers(kind) == IF kind = "lifts" THEN LIFT_MARKERS ELSE TRAIL_MARKERS
ItemsOf(kind) == IF kind = "lifts" THEN lift_items ELSE trail_like_items

\* the markers of a kind present in a line, and the one that wins
Present(ln, kind) ==
    {j \in 1..Len(Markers(kind)) : Occurs(ln, Markers(kind)[j][2])}

Winner(ln, kind) ==
    CHOOSE j \in Present(ln, kind) :
        \A h \in Present(ln, kind) :
            \/ RightmostAt(ln, Markers(kind)[h][2]) < RightmostAt(ln, Markers(kind)[j][2])
            \/ (RightmostAt(ln, Markers(kind)[h][2]) = RightmostAt(ln, Markers(kind)[j][2])
                /\ j <= h)

\* the positions of the fetched lines that are status rows of a kind
StatusRows(kind) ==
    {i \in 1..Len(lines) : ~Occurs(lines[i], TOGGLE) /\ Present(lines[i], kind) # {}}

Ran == outcome \notin {"not run", "fetch error"}

\* C8: every line without the section-toggle sentinel yields a record of a
\* kind iff a marker token of that kind occurs in it; the record's status is
\* the label of the marker whose rightmost occurrence starts furthest right
\* (first in enumeration order on a tie) and its name is the trimmed prefix of
\* the line before that start index.
LineClassifierRightmostWins ==
    Ran => \A kind \in {"lifts", "trails"} :
        /\ Len(ItemsOf(kind)) = Cardinality(StatusRows(kind))
        /\ \A n \in 1..Len(ItemsOf(kind)) :
              LET ln == lines[Nth(StatusRows(kind), n)]
                  w == Markers(kind)[Winner(ln, kind)]
              IN  /\ ItemsOf(kind)[n][3] = w[1]
                  /\ IsTrimOf(ItemsOf(kind)[n][2],
                              SubSeq(ln, 1, RightmostAt(ln, w[2])))

\* a line with two different markers of its kind was classified: the winner
\* is not the first of the enumeration and the name before it is not empty
RightmostWinsWitness ==
    /\ Ran
    /\ \E i \in StatusRows("lifts") :
          /\ Cardinality(Present(lines[i], "lifts")) = 2
          /\ Winner(lines[i], "lifts") # 1
          /\ RightmostAt(lines[i], LIFT_MARKERS[Winner(lines[i], "lifts")][2]) > 0
          /\ lift_items[1][2] # <<>>

\* the characters of a line that no occurrence of the sentinel covers
Remainder(ln) ==
    LET kept == {p \in 1..Len(ln) :
                    ~\E i \in 0..Len(ln) :
                        OccursAt(ln, TOGGLE, i) /\ i < p /\ p <= i + Len(TOGGLE)}
    IN  [n \in 1..Cardinality(kept) |-> ln[Nth(kept, n)]]

\* the sentinel lines before position i
TogglesBefore(i) == {h \in 1..(i - 1) : Occurs(lines[h], TOGGLE)}

\* C9: every emitted record carries as group the trimmed remainder (sentinel
\* removed) of the most recent preceding line containing "Toggle accordion",
\* or "Unknown" if there is none; a line containing the sentinel emits no
\* record even when it contains a marker token; records come in line order.
GroupTracking ==
    Ran => \A kind \in {"lifts", "trails"} :
        /\ Len(ItemsOf(kind)) = Cardinality(StatusRows(kind))
        /\ \A n \in 1..Len(ItemsOf(kind)) :
              LET i == Nth(StatusRows(kind), n)
              IN  IF TogglesBefore(i) = {}
                  THEN ItemsOf(kind)[n][1] = UNKNOWN
                  ELSE IsTrimOf(ItemsOf(kind)[n][1],
                                Remainder(lines[SetMax(TogglesBefore(i))]))

\* a row before any sentinel, then a sentinel line that itself holds a lift
\* marker, then a row: two records, the second grouped under "Lift Open"
GroupTrackingWitness ==
    /\ Ran
    /\ Len(lines) = 3
    /\ Occurs(lines[2], TOGGLE) /\ Present(lines[2], "lifts") # {}
    /\ Len(lift_items) = 2
    /\ lift_items[1][1] = UNKNOWN
    /\ lift_items[2][1] = LIFT_OPEN

\* C5: the key sets of the gates mapping and the trails mapping of one run
\* are disjoint, also for groups and names that contain " :: ".
GatesTrailsDisjoint ==
    DOMAIN current.gates \cap DOMAIN current.trails = {}

\* the record an entry of a mapping comes from: the last one written to its key
SourceRecord(items, cat, k) ==
    LET from == {n \in 1..Len(items) :
                    /\ EntityKey(items[n][1], items[n][2]) = k
                    /\ cat = "gates" => is_gate_row(items[n][1], items[n][2])
                    /\ cat = "trails" => ~is_gate_row(items[n][1], items[n][2])}
    IN  items[SetMax(from)]

LiftLabels == {"Open", "Closed", "On Hold", "Scheduled", "Delayed"}
TrailLabels == {"Open", "Closed", "Expected", "Delayed"}

\* C6: every entry of the lifts, trails and gates mappings comes from a record
\* whose name is non-empty and whose status is a label of its category, also
\* for lines that consist of a marker token only.
EntriesHaveNameAndLabel ==
    /\ \A k \in DOMAIN current.lifts :
          /\ SourceRecord(lift_items, "lifts", k)[2] # <<>>
          /\ SourceRecord(lift_items, "lifts", k)[3] \in LiftLabels
    /\ \A cat \in {"trails", "gates"} : \A k \in DOMAIN current[cat] :
          /\ SourceRecord(trail_like_items, cat, k)[2] # <<>>
          /\ SourceRecord(trail_like_items, cat, k)[3] \in TrailLabels

(***************************************************************************)
(* Properties of the runs.                                                 *)
(***************************************************************************)
LoadErrors == {"JSONDecodeError", "AttributeError"}

IsEmptyMapping(v) == v.py = "dict" /\ DOMAIN v.items = {}

AllEmptyMappings(prevState) ==
    \A cat \in Categories : IsEmptyMapping(prevState[cat])

\* the previous mapping's value for a key; an absent key has none
PrevValue(cat, k) ==
    IF prev.state[cat].py = "dict" /\ k \in DOMAIN prev.state[cat].items
    THEN prev.state[cat].items[k]
    ELSE PyNone

\* the state file holds exactly the snapshot cur
Persisted(cur) ==
    /\ stateFile.kind = "json"
    /\ load_state(stateFile) =
          [ok |-> TRUE,
           state |-> [lifts |-> PyDict(cur.lifts), trails |-> PyDict(cur.trails),
                      gates |-> PyDict(cur.gates)]]

\* C1: once a run has persisted a non-empty baseline in which a key is absent
\* or not "Open", the first later run whose parsed snapshot has the key "Open"
\* calls pushover_notify, whatever runs happened in between.
FirstOpenAfterBaselineNotifies ==
    [][(outcome' # "fetch error" /\ baselined /\ OpenIn(current') \ opened # {})
          => outcome' \in Notified]_vars

\* C2: a run that aborts with the structural-failure error leaves the stored
\* snapshot as it was before the run.
StructuralFailureKeepsSnapshot ==
    [][outcome' = "RuntimeError" => load_state(stateFile') = load_state(stateFile)]_vars

\* C3: a run whose loaded previous snapshot has empty lifts, trails and gates
\* mappings never calls pushover_notify, whatever the current snapshot holds,
\* and persists the current snapshot as the new baseline.
FirstRunSuppression ==
    (Ran /\ prev.ok /\ AllEmptyMappings(prev.state)) =>
        /\ outcome \notin Notified
        /\ message = NoMessage
        /\ Persisted(current)

\* a first run whose page has Open entities ended without a notification
FirstRunWitness ==
    /\ Ran /\ prev.ok /\ AllEmptyMappings(prev.state)
    /\ OpenIn(current) # {}
    /\ outcome = "first run"

Range(seq) == {seq[i] : i \in 1..Len(seq)}

\* C4: for each category and every key k, k is in the category's newly-open
\* list iff current[k] = "Open" and the previous mapping's value for k is not
\* "Open" (an absent k counts as not "Open").
DifferExact ==
    (Ran /\ outcome \notin LoadErrors) =>
        \A cat \in Categories :
            \A k \in DOMAIN current[cat] \cup Range(newly_open[cat])
                     \cup (IF prev.state[cat].py = "dict"
                           THEN DOMAIN prev.state[cat].items ELSE {}) :
                k \in Range(newly_open[cat])
                    <=> (/\ k \in DOMAIN current[cat]
                         /\ current[cat][k] = "Open"
                         /\ PrevValue(cat, k) # "Open")

\* a lift went from Closed to Open and is listed while, in the same run, a
\* trail that stayed Open is not
DifferWitness ==
    /\ Ran /\ outcome \in Notified
    /\ \E k \in Range(newly_open.lifts) : PrevValue("lifts", k) = "Closed"
    /\ \E k \in DOMAIN current.trails :
          /\ current.trails[k] = "Open"
          /\ PrevValue("trails", k) = "Open"
          /\ k \notin Range(newly_open.trails)

\* the category members of a JSON document that are no mappings
BadMembers(doc) ==
    {i \in 1..Len(doc.members) :
        doc.members[i][1] \in Categories /\ doc.members[i][2].t # "object"}

MissingOrMalformed(file) ==
    \/ file.kind \in {"missing", "garbage"}
    \/ file.doc.t # "object"
    \/ BadMembers(file.doc) # {}

\* C7: loading the prior snapshot never fails the run: a missing or malformed
\* state file loads as three empty mappings and the run proceeds as a first
\* run; a well-formed file lacking a category gets it defaulted to empty.
LoadNeverFails ==
    [][outcome' # "fetch error" =>
          /\ prev'.ok
          /\ outcome' \notin LoadErrors
          /\ MissingOrMalformed(stateFile) =>
                (AllEmptyMappings(prev'.state)
                 /\ outcome' \in {"first run", "RuntimeError"})
          /\ ~MissingOrMalformed(stateFile) =>
                \A cat \in Categories :
                    (\A i \in 1..Len(stateFile.doc.members) :
                        stateFile.doc.members[i][1] # cat)
                    => IsEmptyMapping(prev'.state[cat])]_vars

\* C10: a run that fetches the line sequence the run before it parsed never
\* calls pushover_notify, and a notification is only ever triggered by a key
\* that is "Open" now and was not "Open" in the snapshot the run loaded.
NoRepeatedAlert ==
    /\ same_as_last => outcome \notin Notified
    /\ outcome \in Notified =>
          /\ prev.ok
          /\ \E cat \in Categories : \E k \in DOMAIN current[cat] :
                current[cat][k] = "Open" /\ PrevValue(cat, k) # "Open"

\* the same page was fetched twice in a row, something on it is Open, and the
\* second run found nothing new
NoRepeatedAlertWitness ==
    /\ same_as_last
    /\ OpenIn(current) # {}
    /\ prev.ok /\ ~AllEmptyMappings(prev.state)
    /\ outcome = "no new opens"

====
